---------------------------- MODULE Spec2Model ----------------------------
(***************************************************************************)
(* State-machine model of yt.py: a pipeline that downloads the subtitles   *)
(* of one video, machine-translates one of them, downloads the video and   *)
(* audio tracks in two threads, and multiplexes everything with ffmpeg.    *)
(*                                                                         *)
(* A Python str is modelled as a sequence of one-character strings, so     *)
(* that substring tests, suffix surgery and the regular expressions of     *)
(* the program are computed, not assumed.                                  *)
(***************************************************************************)
EXTENDS Naturals, Integers, Sequences, FiniteSets, TLC

(***************************************************************************)
(* Python str primitives used by the program.                              *)
(***************************************************************************)

\* s[i:i+len(sub)] == sub, with 1-based i
MatchAt(s, sub, i) ==
    /\ i >= 1
    /\ i + Len(sub) - 1 <= Len(s)
    /\ \A k \in 1..Len(sub) : s[i + k - 1] = sub[k]

\* `sub in s`
Contains(s, sub) == \E i \in 1..(Len(s) + 1) : MatchAt(s, sub, i)

\* s.endswith(suf)
EndsWith(s, suf) ==
    /\ Len(suf) <= Len(s)
    /\ MatchAt(s, suf, Len(s) - Len(suf) + 1)

\* s.startswith(pre)
StartsWith(s, pre) == MatchAt(s, pre, 1)

\* s[:-n]
DropLast(s, n) == IF Len(s) <= n THEN << >> ELSE SubSeq(s, 1, Len(s) - n)

\* s[i-1:] for a 1-based i
From(s, i) == IF i > Len(s) THEN << >> ELSE SubSeq(s, i, Len(s))

\* s.find(sub), 1-based, 0 when absent
Find(s, sub) ==
    IF Contains(s, sub)
    THEN CHOOSE i \in 1..(Len(s) + 1) :
            /\ MatchAt(s, sub, i)
            /\ \A j \in 1..(i - 1) : ~MatchAt(s, sub, j)
    ELSE 0

\* s.replace(old, new) for a non-empty old: leftmost, non-overlapping
RECURSIVE Replace(_, _, _)
Replace(s, old, new) ==
    LET i == Find(s, old) IN
    IF i = 0 THEN s
    ELSE SubSeq(s, 1, i - 1) \o new \o Replace(From(s, i + Len(old)), old, new)

\* s.split(sep) for a non-empty sep
RECURSIVE Split(_, _)
Split(s, sep) ==
    LET i == Find(s, sep) IN
    IF i = 0 THEN << s >>
    ELSE << SubSeq(s, 1, i - 1) >> \o Split(From(s, i + Len(sep)), sep)

\* sep.join(parts)
RECURSIVE Join(_, _)
Join(sep, parts) ==
    IF Len(parts) = 0 THEN << >>
    ELSE IF Len(parts) = 1 THEN parts[1]
    ELSE parts[1] \o sep \o Join(sep, Tail(parts))

\* the characters str.strip() and \s remove, among those the model uses
Whitespace == {" ", "\n", "\t", "\r"}

RECURSIVE LStrip(_)
LStrip(s) ==
    IF Len(s) > 0 /\ s[1] \in Whitespace THEN LStrip(Tail(s)) ELSE s

RECURSIVE RStrip(_)
RStrip(s) ==
    IF Len(s) > 0 /\ s[Len(s)] \in Whitespace THEN RStrip(DropLast(s, 1)) ELSE s

\* s.strip()
Strip(s) == RStrip(LStrip(s))

\* the class \d
Digit == {"0", "1", "2", "3", "4", "5", "6", "7", "8", "9"}

DigitChar(d) ==
    CASE d = 0 -> "0" [] d = 1 -> "1" [] d = 2 -> "2" [] d = 3 -> "3"
      [] d = 4 -> "4" [] d = 5 -> "5" [] d = 6 -> "6" [] d = 7 -> "7"
      [] d = 8 -> "8" [] d = 9 -> "9"

\* f"{n}" for a natural number n
RECURSIVE Str(_)
Str(n) == IF n < 10 THEN << DigitChar(n) >>
          ELSE Str(n \div 10) \o << DigitChar(n % 10) >>


(***************************************************************************)
(* String literals of the program.                                         *)
(***************************************************************************)

\* the value None, which is no str
None == << "None" >>

UrlPrefix == <<"h", "t", "t", "p", "s", ":", "/", "/", "y", "o", "u", "t", "u", ".", "b", "e", "/">>

\* the class [a-zA-Z0-9_-]
IdChar ==
    {"a", "b", "c", "d", "e", "f", "g", "h", "i", "j", "k", "l", "m", "n", "o", "p",
     "q", "r", "s", "t", "u", "v", "w", "x", "y", "z", "A", "B", "C", "D", "E", "F",
     "G", "H", "I", "J", "K", "L", "M", "N", "O", "P", "Q", "R", "S", "T", "U", "V",
     "W", "X", "Y", "Z", "0", "1", "2", "3", "4", "5", "6", "7", "8", "9", "_", "-"}

\* the repetition count {11}
IdLen == 11

DotVtt == <<".", "v", "t", "t">>
DotMp4 == <<".", "m", "p", "4">>
DotMkv == <<".", "m", "k", "v">>
DotM4a == <<".", "m", "4", "a">>
TwVtt == <<"t", "w", ".", "v", "t", "t">>
Arrow == <<" ", "-", "-", ">", " ">>
Newline == << "\n" >>

L_zhTW == <<"z", "h", "-", "T", "W">>
L_zh == <<"z", "h">>
L_en == <<"e", "n">>
L_ja == <<"j", "a">>
L_und == <<"u", "n", "d">>

(***************************************************************************)
(* Pure functions of the program.                                          *)
(***************************************************************************)

\* a mutant of is_valid_youtube_url: the length of the id is not checked
is_valid_prefix_only(url) == StartsWith(url, UrlPrefix)

\* re.match(r"^https://youtu\.be/[a-zA-Z0-9_-]{11}$", url) is not None;
\* `$` also matches just before a final newline
is_valid_youtube_url(url) ==
    LET n == Len(UrlPrefix) IN
    /\ StartsWith(url, UrlPrefix)
    /\ \/ Len(url) = n + IdLen
       \/ Len(url) = n + IdLen + 1 /\ url[Len(url)] = "\n"
    /\ \A k \in (n + 1)..(n + IdLen) : url[k] \in IdChar

\* os.path.exists(filename) for a str
path_exists(fsys, filename) == filename \in DOMAIN fsys

\* a mutant of check_file_integrity: the size is not looked at
check_file_exists_only(fsys, filename) == path_exists(fsys, filename)

\* os.path.exists(filename) and os.path.getsize(filename) > 0, for a str
check_file_integrity(fsys, filename) ==
    /\ path_exists(fsys, filename)
    /\ Len(fsys[filename]) > 0

\* re.search(r"\[.*?\]\.", f) is not None
HasBracketId(f) ==
    \E i \in 1..Len(f) : \E j \in (i + 1)..(Len(f) - 1) :
        f[i] = "[" /\ f[j] = "]" /\ f[j + 1] = "." /\
        \A k \in (i + 1)..(j - 1) : f[k] # "\n"

\* whether s[k:] matches \s*\[.*?\]\..*$ (k is 1-based): `.` matches no
\* newline, and `$` matches at the end and just before a final newline
TailMatches(s, k) ==
    LET rest == LStrip(From(s, k))
        n == Len(rest)
    IN /\ n > 0
       /\ rest[1] = "["
       /\ \E j \in 2..(n - 1) :
             /\ rest[j] = "]"
             /\ rest[j + 1] = "."
             /\ \A m \in 2..(j - 1) : rest[m] # "\n"
             /\ \A m \in (j + 2)..n : rest[m] = "\n" => m = n

\* re.match(r"^(.*?)\s*\[.*?\]\..*$", filename): group(1).strip(), or filename
extract_base_filename(filename) ==
    LET ok(k) == /\ TailMatches(filename, k)
                 /\ \A m \in 1..(k - 1) : filename[m] # "\n"
    IN  IF \E k \in 1..(Len(filename) + 1) : ok(k)
        THEN LET k == CHOOSE k \in 1..(Len(filename) + 1) :
                          ok(k) /\ \A j \in 1..(k - 1) : ~ok(j)
             IN Strip(SubSeq(filename, 1, k - 1))
        ELSE filename

\* re.match(r'^\d{2}:\d{2}:\d{2}', line) is not None
IsTimecode(line) ==
    /\ Len(line) >= 8
    /\ \A k \in {1, 2, 4, 5, 7, 8} : line[k] \in Digit
    /\ line[3] = ":"
    /\ line[6] = ":"

\* subtitle_lines[i + 1:i + 3] for the 1-based index i of the timing line
TextLines(lines, i) ==
    IF i + 1 > Len(lines) THEN << >>
    ELSE SubSeq(lines, i + 1, IF i + 2 <= Len(lines) THEN i + 2 ELSE Len(lines))

\* the while loop of parse_vtt from 1-based line i with the entries so far;
\* err: the tuple assignment of the timing line raised ValueError
RECURSIVE ParseFrom(_, _, _)
ParseFrom(lines, i, entries) ==
    IF i > Len(lines) THEN [err |-> FALSE, entries |-> entries]
    ELSE IF IsTimecode(lines[i])
    THEN LET parts == Split(lines[i], Arrow) IN
         IF Len(parts) # 2 THEN [err |-> TRUE, entries |-> << >>]
         ELSE ParseFrom(lines, i + 3,
                  Append(entries,
                         [start_time |-> parts[1],
                          end_time   |-> parts[2],
                          text       |-> Strip(Join(Newline, TextLines(lines, i)))]))
    ELSE ParseFrom(lines, i + 1, entries)

parse_vtt(subtitle_content) ==
    ParseFrom(Split(subtitle_content, Newline), 1, << >>)

\* the four lines combine_srt appends for the 1-based entry i
SrtBlock(entries, translated_texts, i) ==
    << Str(i),
       Replace(entries[i].start_time, << "." >>, << "," >>) \o Arrow \o
           Replace(entries[i].end_time, << "." >>, << "," >>),
       translated_texts[i],
       << >> >>

RECURSIVE SrtLines(_, _, _)
SrtLines(entries, translated_texts, i) ==
    IF i > Len(entries) THEN << >>
    ELSE SrtBlock(entries, translated_texts, i) \o
         SrtLines(entries, translated_texts, i + 1)

\* err: translated_texts[i] raised IndexError
combine_srt(entries, translated_texts) ==
    IF Len(translated_texts) < Len(entries)
    THEN [err |-> TRUE, text |-> << >>]
    ELSE [err |-> FALSE, text |-> Join(Newline, SrtLines(entries, translated_texts, 1))]

\* f"{subtitle_file.replace('.vtt', '')[:-2]}tw.vtt"
translated_name(subtitle_file) ==
    DropLast(Replace(subtitle_file, DotVtt, << >>), 2) \o TwVtt

\* the if/elif chain that tags one subtitle file
subtitle_lang(f) ==
    IF Contains(f, L_zhTW) THEN L_zhTW
    ELSE IF Contains(f, L_zh) THEN L_zh
    ELSE IF Contains(f, L_en) THEN L_en
    ELSE IF Contains(f, L_ja) THEN L_ja
    ELSE L_und

(***************************************************************************)
(* The environment: the video behind the URL, the files yt-dlp writes for  *)
(* it, and the inputs the operator may type.                               *)
(***************************************************************************)

\* the titles the site may report for the video; the second contains the
\* letters of a language marker, as any title with "en" in it does
Titles == { << "T" >>, << "Z", "e", "n" >> }

\* info['title'] of the video behind the URL
VARIABLE title

VideoId == <<"d", "Q", "w", "4", "w", "9", "W", "g", "X", "c", "Q">>

\* outtmpl '%(title)s [%(id)s].%(ext)s'
OutName(ext) == title \o << " ", "[" >> \o VideoId \o << "]", "." >> \o ext

VideoName == OutName(<< "m", "p", "4" >>)
AudioName == OutName(<< "m", "4", "a" >>)
SubName(lang) == OutName(lang \o DotVtt)

\* what the operator may type at the prompt
GoodUrl == UrlPrefix \o VideoId
Inputs ==
    { GoodUrl,
      << " " >> \o GoodUrl \o << " " >>,
      DropLast(GoodUrl, 1),
      GoodUrl \o << "x" >>,
      Tail(GoodUrl) }

\* subtitle documents the site may serve
DocOneCue ==
    <<"W", "E", "B", "V", "T", "T", "\n", "\n", "0", "0", ":", "0",
      "0", ":", "0", "1", ".", "0", "0", "0", " ", "-", "-", ">",
      " ", "0", "0", ":", "0", "0", ":", "0", "2", ".", "0", "0",
      "0", "\n", "a", "\n">>
DocTwoCues ==
    <<"W", "E", "B", "V", "T", "T", "\n", "\n", "0", "0", ":", "0",
      "0", ":", "0", "1", ".", "0", "0", "0", " ", "-", "-", ">",
      " ", "0", "0", ":", "0", "0", ":", "0", "2", ".", "0", "0",
      "0", "\n", "a", "\n", "\n", "0", "0", ":", "0", "0", ":", "0",
      "2", ".", "0", "0", "0", " ", "-", "-", ">", " ", "0", "0",
      ":", "0", "0", ":", "0", "3", ".", "5", "0", "0", "\n", "b",
      "\n">>
DocHeaderOnly == <<"W", "E", "B", "V", "T", "T", "\n", "\n">>
DocBlank == << "\n" >>
DocZeroBytes == << >>

\* bytes of a downloaded media track, and of a muxed container
Media == << "x" >>

\* the site's catalogue of human-authored subtitle tracks: language -> document
Catalogues ==
    { << >>,
      (L_en :> DocTwoCues) @@ (L_ja :> DocOneCue),
      (L_zhTW :> DocOneCue) @@ (L_en :> DocOneCue),
      (L_zh :> DocBlank) @@ (L_en :> DocOneCue),
      (L_en :> DocHeaderOnly),
      (L_ja :> DocZeroBytes) }

\* the reply of the translation endpoint to a request for `text`: the text in
\* the target language, which a text already in that language is
Reply(text) == IF StartsWith(text, << "~" >>) THEN text ELSE << "~" >> \o text

\* for lang in ['zh', 'en', 'ja']
Priority == << L_zh, L_en, L_ja >>

(***************************************************************************)
(* The working directory: file name -> content.                            *)
(***************************************************************************)

WriteFile(fsys, name, content) ==
    [n \in DOMAIN fsys \cup {name} |-> IF n = name THEN content ELSE fsys[n]]

WriteAll(fsys, files) ==
    [n \in DOMAIN fsys \cup DOMAIN files |->
        IF n \in DOMAIN files THEN files[n] ELSE fsys[n]]

\* os.remove(name)
RemoveFile(fsys, name) == [n \in DOMAIN fsys \ {name} |-> fsys[n]]

\* the orders in which os.listdir() may return the files of S
Orderings(S) ==
    { q \in [1..Cardinality(S) -> S] :
        \A i, j \in 1..Cardinality(S) : q[i] = q[j] => i = j }

\* next((f for f in files if pred(f)), None)
RECURSIVE FirstWith(_, _)
FirstWith(files, marker) ==
    IF Len(files) = 0 THEN None
    ELSE IF Contains(files[1], marker) THEN files[1]
    ELSE FirstWith(Tail(files), marker)

\* a subtitle file of another video, left in the working directory by an
\* earlier run that ended before cleanup
LeftoverName ==
    << "O", " ", "[" >> \o
    << "a", "a", "a", "a", "a", "a", "a", "a", "a", "a", "a" >> \o
    << "]", "." >> \o L_ja \o DotVtt

\* the working directories main() may be started in
StartDirs == { << >>, LeftoverName :> DocOneCue }

\* the videos and working directories of the first run: every catalogue
\* under the plain title and the en and ja tracks under the other title, in
\* an empty directory; and the plain title without a track of its own, or
\* with a zh-TW track, in the directory that holds the leftover
Environments ==
    { e \in [title : Titles, catalogue : Catalogues, dir : StartDirs] :
        \/ /\ e.dir = << >>
           /\ e.title = << "T" >> \/ DOMAIN e.catalogue = {L_en, L_ja}
        \/ /\ e.dir # << >>
           /\ e.title = << "T" >>
           /\ DOMAIN e.catalogue \in { {}, {L_zhTW, L_en} } }

(***************************************************************************)
(* State.                                                                  *)
(***************************************************************************)

VARIABLES
    catalogue,                 \* the site's subtitle tracks for the video
    fs,                        \* the working directory
    pc,                        \* where main() is, or how the run ended
    youtube_url,
    subtitle_files,
    lang_idx,                  \* position of `for lang in ['zh', 'en', 'ja']`
    target_subtitle,
    subtitle_entries,
    pending,                   \* requests of asyncio.gather still in flight
    completed,                 \* replies received, in completion order
    translated_texts,          \* what asyncio.gather returned
    translated_subtitles,      \* what combine_srt returned
    translated_subtitle_file,
    video_thread,
    audio_thread,
    video_file,
    audio_file,
    subtitle_langs,
    command,                   \* the ffmpeg invocation built by merge_with_ffmpeg
    mux_exit,
    attempts,                  \* history: calls of translate_subtitles_parallel
    rejected,                  \* history: invalid inputs typed in this call of get_user_input
    subs_download_called,      \* history: ydl.download was called in this run
    deleted                    \* history: files removed in this run

vars ==
    << rejected, title, catalogue, fs, pc, youtube_url, subtitle_files, lang_idx, target_subtitle,
       subtitle_entries, pending, completed, translated_texts,
       translated_subtitles, translated_subtitle_file, video_thread, audio_thread, video_file,
       audio_file, subtitle_langs, command, mux_exit, attempts,
       subs_download_called, deleted >>

NoCommand == [inputs |-> << >>, metadata |-> << >>, maps |-> << >>, output |-> << >>]

Terminal == {"Done", "Aborted", "Failed", "Crashed"}

\* the locals of main() before its first statement
FreshRun ==
    /\ pc = "prompt"
    /\ rejected = 0
    /\ youtube_url = None
    /\ subtitle_files = << >>
    /\ lang_idx = 0
    /\ target_subtitle = None
    /\ subtitle_entries = << >>
    /\ pending = {}
    /\ completed = << >>
    /\ translated_texts = << >>
    /\ translated_subtitles = << >>
    /\ translated_subtitle_file = None
    /\ video_thread = "idle"
    /\ audio_thread = "idle"
    /\ video_file = None
    /\ audio_file = None
    /\ subtitle_langs = << >>
    /\ command = NoCommand
    /\ mux_exit = "none"
    /\ attempts = << >>
    /\ subs_download_called = FALSE
    /\ deleted = {}

Init ==
    /\ \E e \in Environments :
          /\ title = e.title
          /\ catalogue = e.catalogue
          /\ fs = e.dir
    /\ FreshRun

(***************************************************************************)
(* get_user_input and download_available_subtitles.                        *)
(***************************************************************************)

\* one iteration of the while loop of get_user_input
\* the invalid inputs counted at one prompt; further ones are not counted
MaxRejected == 2

GetUserInput ==
    /\ pc = "prompt"
    /\ \E typed \in Inputs :
          LET url == Strip(typed) IN
          IF is_valid_youtube_url(url)
          THEN /\ youtube_url' = url
               /\ pc' = "subs"
               /\ rejected' = 0
          ELSE /\ rejected' = IF rejected < MaxRejected THEN rejected + 1 ELSE rejected
               /\ UNCHANGED << youtube_url, pc >>
    /\ UNCHANGED << title, catalogue, translated_subtitles, fs, subtitle_files, lang_idx, target_subtitle,
                    subtitle_entries, pending, completed, translated_texts,
                    translated_subtitle_file, video_thread, audio_thread, video_file, audio_file,
                    subtitle_langs, command, mux_exit, attempts,
                    subs_download_called, deleted >>

\* the files ydl.download writes: one per language of the catalogue
SubtitleDownloads == [n \in {SubName(l) : l \in DOMAIN catalogue} |->
                        catalogue[CHOOSE l \in DOMAIN catalogue : SubName(l) = n]]

\* download_available_subtitles: extract_info raises, or the catalogue is
\* empty, or every track is downloaded, or ydl.download raises with none or
\* some of the tracks written and the except clause returns []
DownloadSubtitles ==
    /\ pc = "subs"
    /\ \/ UNCHANGED << fs, subs_download_called >>
       \/ /\ DOMAIN catalogue = {}
          /\ UNCHANGED << fs, subs_download_called >>
       \/ /\ DOMAIN catalogue # {}
          /\ fs' = WriteAll(fs, SubtitleDownloads)
          /\ subs_download_called' = TRUE
       \/ /\ DOMAIN catalogue # {}
          /\ \E written \in SUBSET DOMAIN SubtitleDownloads :
                fs' = WriteAll(fs, [n \in written |-> SubtitleDownloads[n]])
          /\ subs_download_called' = TRUE
    /\ pc' = "listdir"
    /\ UNCHANGED << rejected, title, catalogue, translated_subtitles, youtube_url, subtitle_files, lang_idx, target_subtitle,
                    subtitle_entries, pending, completed, translated_texts,
                    translated_subtitle_file, video_thread, audio_thread, video_file, audio_file,
                    subtitle_langs, command, mux_exit, attempts, deleted >>

\* a mutant of has_zh_tw: the zh-TW track is not looked for
has_zh_tw_ignored(files) == FALSE

\* has_zh_tw = any('zh-TW' in f for f in subtitle_files)
has_zh_tw(files) == \E k \in 1..Len(files) : Contains(files[k], L_zhTW)

\* subtitle_files = [f for f in os.listdir() if f.endswith('.vtt')], has_zh_tw
\* and `if not has_zh_tw`
ListSubtitles ==
    /\ pc = "listdir"
    /\ \E listing \in Orderings({f \in DOMAIN fs : EndsWith(f, DotVtt)}) :
          /\ subtitle_files' = listing
          /\ IF has_zh_tw(listing)
             THEN pc' = "threads" /\ lang_idx' = 0
             ELSE pc' = "select" /\ lang_idx' = 1
    /\ UNCHANGED << rejected, title, catalogue, translated_subtitles, fs, youtube_url, target_subtitle,
                    subtitle_entries, pending, completed, translated_texts,
                    translated_subtitle_file, video_thread, audio_thread, video_file, audio_file,
                    subtitle_langs, command, mux_exit, attempts,
                    subs_download_called, deleted >>

(***************************************************************************)
(* The translation loop of main() and translate_subtitles_parallel.        *)
(***************************************************************************)

\* translate_subtitles_parallel returned None: `if translated_subtitle_file`
\* is false and the for loop goes to its next language, or ends
NextLanguage ==
    IF lang_idx < Len(Priority)
    THEN pc' = "select" /\ lang_idx' = lang_idx + 1
    ELSE pc' = "threads" /\ lang_idx' = 0

\* an iteration of the for loop in which no file name contains the language
SkipLanguage ==
    /\ pc = "select"
    /\ FirstWith(subtitle_files, Priority[lang_idx]) = None
    /\ NextLanguage
    /\ UNCHANGED << rejected, title, catalogue, translated_subtitles, fs, youtube_url, subtitle_files, target_subtitle,
                    subtitle_entries, pending, completed, translated_texts,
                    translated_subtitle_file, video_thread, audio_thread, video_file, audio_file,
                    subtitle_langs, command, mux_exit, attempts,
                    subs_download_called, deleted >>

\* an iteration that calls translate_subtitles_parallel: the file is read and
\* parsed and one request per entry is issued; a blank file or a parse error
\* returns None at once
BeginTranslate ==
    /\ pc = "select"
    /\ LET f == FirstWith(subtitle_files, Priority[lang_idx])
           parsed == parse_vtt(fs[f])
       IN /\ f # None
          /\ IF Strip(fs[f]) = << >> \/ parsed.err
             THEN /\ NextLanguage
                  /\ attempts' = Append(attempts,
                         [src |-> f, wrote |-> None, failed |-> FALSE])
                  /\ UNCHANGED << target_subtitle, subtitle_entries, pending >>
             ELSE /\ target_subtitle' = f
                  /\ subtitle_entries' = parsed.entries
                  /\ pending' = 1..Len(parsed.entries)
                  /\ pc' = "gather"
                  /\ UNCHANGED << lang_idx, attempts >>
    /\ UNCHANGED << rejected, title, catalogue, translated_subtitles, fs, youtube_url, subtitle_files, completed,
                    translated_texts, translated_subtitle_file, video_thread, audio_thread,
                    video_file, audio_file, subtitle_langs, command, mux_exit,
                    subs_download_called, deleted >>

\* translate_text for entry i returns the endpoint's reply
RequestDone ==
    /\ pc = "gather"
    /\ \E i \in pending :
          /\ pending' = pending \ {i}
          /\ completed' = Append(completed,
                [idx |-> i, ok |-> TRUE, text |-> Reply(subtitle_entries[i].text)])
    /\ UNCHANGED << rejected, title, catalogue, translated_subtitles, fs, pc, youtube_url, subtitle_files, lang_idx,
                    target_subtitle, subtitle_entries, translated_texts,
                    translated_subtitle_file, video_thread, audio_thread,
                    video_file, audio_file, subtitle_langs, command, mux_exit,
                    attempts, subs_download_called, deleted >>

\* translate_text for entry i raises (the request fails, or the reply is not
\* the nested array expected)
RequestFail ==
    /\ pc = "gather"
    /\ \E i \in pending :
          /\ pending' = pending \ {i}
          /\ completed' = Append(completed, [idx |-> i, ok |-> FALSE, text |-> << >>])
    /\ UNCHANGED << rejected, title, catalogue, translated_subtitles, fs, pc, youtube_url, subtitle_files, lang_idx,
                    target_subtitle, subtitle_entries, translated_texts,
                    translated_subtitle_file, video_thread, audio_thread,
                    video_file, audio_file, subtitle_langs, command, mux_exit,
                    attempts, subs_download_called, deleted >>

\* a mutant of ExceptReturnsNone: the exception leaves main()
AbortOnTranslationFailure == pc' = "Crashed" /\ lang_idx' = 0

\* `except Exception` of translate_subtitles_parallel logs and returns None to
\* main(), whose for loop goes on
ExceptReturnsNone == NextLanguage

\* some request of the batch has raised
AnyFailed(done) == \E k \in 1..Len(done) : ~done[k].ok

\* a mutant of GatherRaises: failures are swallowed
GatherSwallows(done) == FALSE

\* asyncio.gather without return_exceptions: the first exception of an
\* awaitable is raised to the caller of gather
GatherRaises(done) == AnyFailed(done)

\* a mutant of gather: the replies in the order they arrived
gather_by_completion(done, n) == [k \in 1..n |-> done[k].text]

\* the list asyncio.gather returns for n awaitables: the reply of the i-th
\* awaitable at position i
gather(done, n) ==
    [i \in 1..n |-> done[CHOOSE k \in 1..Len(done) : done[k].idx = i].text]

\* gather raised: the except clause of translate_subtitles_parallel logs and
\* returns None; the requests still in flight are abandoned
TranslateError ==
    /\ pc = "gather"
    /\ GatherRaises(completed)
    /\ attempts' = Append(attempts,
                          [src |-> target_subtitle, wrote |-> None, failed |-> TRUE])
    /\ ExceptReturnsNone
    /\ target_subtitle' = None
    /\ subtitle_entries' = << >>
    /\ pending' = {}
    /\ completed' = << >>
    /\ UNCHANGED << rejected, title, catalogue, translated_subtitles, fs, youtube_url, subtitle_files, translated_texts,
                    translated_subtitle_file, video_thread, audio_thread,
                    video_file, audio_file, subtitle_langs, command, mux_exit,
                    subs_download_called, deleted >>

\* every request has returned: translated_texts = await asyncio.gather(*tasks)
GatherReturn ==
    /\ pc = "gather"
    /\ pending = {}
    /\ ~GatherRaises(completed)
    /\ translated_texts' = gather(completed, Len(subtitle_entries))
    /\ pc' = "combine"
    /\ UNCHANGED << rejected, title, catalogue, translated_subtitles, fs, youtube_url, subtitle_files, lang_idx,
                    target_subtitle, subtitle_entries, pending, completed,
                    translated_subtitle_file, video_thread, audio_thread,
                    video_file, audio_file, subtitle_langs, command, mux_exit,
                    attempts, subs_download_called, deleted >>

\* translated_subtitles = combine_srt(subtitle_entries, translated_texts); an
\* IndexError is caught by the except clause, which returns None
CombineSrt ==
    /\ pc = "combine"
    /\ LET combined == combine_srt(subtitle_entries, translated_texts) IN
       IF combined.err
       THEN /\ attempts' = Append(attempts,
                   [src |-> target_subtitle, wrote |-> None,
                    failed |-> AnyFailed(completed)])
            /\ ExceptReturnsNone
            /\ target_subtitle' = None
            /\ subtitle_entries' = << >>
            /\ translated_texts' = << >>
            /\ completed' = << >>
            /\ UNCHANGED translated_subtitles
       ELSE /\ translated_subtitles' = combined.text
            /\ pc' = "write"
            /\ UNCHANGED << attempts, lang_idx, target_subtitle, subtitle_entries,
                            translated_texts, completed >>
    /\ UNCHANGED << rejected, title, catalogue, fs, youtube_url, subtitle_files, pending,
                    translated_subtitle_file, video_thread, audio_thread,
                    video_file, audio_file, subtitle_langs, command, mux_exit,
                    subs_download_called, deleted >>

\* the translated file is written and its name returned; main() breaks out of
\* the for loop
WriteTranslated ==
    /\ pc = "write"
    /\ LET translated_file == translated_name(target_subtitle) IN
       /\ fs' = WriteFile(fs, translated_file, translated_subtitles)
       /\ attempts' = Append(attempts,
              [src |-> target_subtitle, wrote |-> translated_file,
               failed |-> AnyFailed(completed)])
       /\ translated_subtitle_file' = translated_file
    /\ pc' = "threads"
    /\ lang_idx' = 0
    /\ target_subtitle' = None
    /\ subtitle_entries' = << >>
    /\ translated_texts' = << >>
    /\ translated_subtitles' = << >>
    /\ completed' = << >>
    /\ UNCHANGED << rejected, title, catalogue, youtube_url, subtitle_files, pending, video_thread,
                    audio_thread, video_file, audio_file, subtitle_langs, command,
                    mux_exit, subs_download_called, deleted >>

(***************************************************************************)
(* The two download threads.                                               *)
(***************************************************************************)

\* what one yt-dlp process may leave behind: it writes the track and exits 0,
\* or exits non-zero (check=True raises in the thread, which ends) having
\* written nothing or a zero-byte file
DownloadOutcomes == {"ok", "fail", "fail_empty"}

DownloadEffect(fsys, name, outcome) ==
    CASE outcome = "ok"         -> WriteFile(fsys, name, Media)
      [] outcome = "fail"       -> fsys
      [] outcome = "fail_empty" -> WriteFile(fsys, name, << >>)

\* download_video returns or raises in video_thread
VideoExit ==
    /\ video_thread = "running"
    /\ \E outcome \in DownloadOutcomes :
          /\ fs' = DownloadEffect(fs, VideoName, outcome)
          /\ video_thread' = IF outcome = "ok" THEN "ok" ELSE "failed"
    /\ UNCHANGED << rejected, title, catalogue, translated_subtitles, pc, youtube_url, subtitle_files, lang_idx,
                    target_subtitle, subtitle_entries, pending, completed,
                    translated_texts, translated_subtitle_file, audio_thread,
                    video_file, audio_file, subtitle_langs, command, mux_exit,
                    attempts, subs_download_called, deleted >>

\* download_audio returns or raises in audio_thread
AudioExit ==
    /\ audio_thread = "running"
    /\ \E outcome \in DownloadOutcomes :
          /\ fs' = DownloadEffect(fs, AudioName, outcome)
          /\ audio_thread' = IF outcome = "ok" THEN "ok" ELSE "failed"
    /\ UNCHANGED << rejected, title, catalogue, translated_subtitles, pc, youtube_url, subtitle_files, lang_idx,
                    target_subtitle, subtitle_entries, pending, completed,
                    translated_texts, translated_subtitle_file, video_thread,
                    video_file, audio_file, subtitle_langs, command, mux_exit,
                    attempts, subs_download_called, deleted >>

\* video_thread.start(): when the call returns, the thread runs, or its
\* yt-dlp process has already ended
StartVideo ==
    /\ pc = "threads"
    /\ video_thread = "idle"
    /\ \/ video_thread' = "running" /\ UNCHANGED fs
       \/ \E outcome \in DownloadOutcomes :
             /\ fs' = DownloadEffect(fs, VideoName, outcome)
             /\ video_thread' = IF outcome = "ok" THEN "ok" ELSE "failed"
    /\ UNCHANGED << rejected, title, catalogue, translated_subtitles, pc, youtube_url, subtitle_files, lang_idx,
                    target_subtitle, subtitle_entries, pending, completed,
                    translated_texts, translated_subtitle_file, audio_thread,
                    video_file, audio_file, subtitle_langs, command, mux_exit,
                    attempts, subs_download_called, deleted >>

\* audio_thread.start() after video_thread.start() has returned
StartAudio ==
    /\ pc = "threads"
    /\ video_thread # "idle"
    /\ audio_thread = "idle"
    /\ \/ audio_thread' = "running" /\ UNCHANGED fs
       \/ \E outcome \in DownloadOutcomes :
             /\ fs' = DownloadEffect(fs, AudioName, outcome)
             /\ audio_thread' = IF outcome = "ok" THEN "ok" ELSE "failed"
    /\ pc' = "join_video"
    /\ UNCHANGED << rejected, title, catalogue, translated_subtitles, youtube_url, subtitle_files, lang_idx,
                    target_subtitle, subtitle_entries, pending, completed,
                    translated_texts, translated_subtitle_file, video_thread,
                    video_file, audio_file, subtitle_langs, command, mux_exit,
                    attempts, subs_download_called, deleted >>

\* a mutant of ThreadFinished: join returns without waiting
JoinNoWait(thread) == TRUE

\* Thread.join returns once the thread has ended, however it ended
ThreadFinished(thread) == thread \in {"ok", "failed"}

\* video_thread.join()
JoinVideo ==
    /\ pc = "join_video"
    /\ ThreadFinished(video_thread)
    /\ pc' = "join_audio"
    /\ UNCHANGED << rejected, title, catalogue, translated_subtitles, fs, youtube_url, subtitle_files, lang_idx,
                    target_subtitle, subtitle_entries, pending, completed,
                    translated_texts, translated_subtitle_file, video_thread,
                    audio_thread, video_file, audio_file, subtitle_langs,
                    command, mux_exit, attempts, subs_download_called,
                    deleted >>

\* audio_thread.join()
JoinAudio ==
    /\ pc = "join_audio"
    /\ ThreadFinished(audio_thread)
    /\ pc' = "discover"
    /\ UNCHANGED << rejected, title, catalogue, translated_subtitles, fs, youtube_url, subtitle_files, lang_idx,
                    target_subtitle, subtitle_entries, pending, completed,
                    translated_texts, translated_subtitle_file, video_thread,
                    audio_thread, video_file, audio_file, subtitle_langs,
                    command, mux_exit, attempts, subs_download_called,
                    deleted >>

(***************************************************************************)
(* Discovery and verification of the downloaded tracks.                    *)
(***************************************************************************)

\* next((f for f in downloaded_files if ...), None): os.listdir() may put any
\* candidate first
FirstOf(candidates) == IF candidates = {} THEN {None} ELSE candidates

\* downloaded_files, video_file, audio_file
Discover ==
    /\ pc = "discover"
    /\ LET downloaded_files == {f \in DOMAIN fs : HasBracketId(f)} IN
       /\ video_file' \in FirstOf({f \in downloaded_files :
                                     EndsWith(f, DotMp4) \/ EndsWith(f, DotMkv)})
       /\ audio_file' \in FirstOf({f \in downloaded_files : EndsWith(f, DotM4a)})
    /\ pc' = "verify"
    /\ UNCHANGED << rejected, title, catalogue, translated_subtitles, fs, youtube_url, subtitle_files, lang_idx,
                    target_subtitle, subtitle_entries, pending, completed,
                    translated_texts, translated_subtitle_file, video_thread,
                    audio_thread, subtitle_langs, command, mux_exit, attempts,
                    subs_download_called, deleted >>

\* all(check_file_integrity(f) for f in files), evaluated left to right:
\* "TypeError" when os.path.exists is reached with None
RECURSIVE IntegrityAll(_, _)
IntegrityAll(fsys, files) ==
    IF Len(files) = 0 THEN "ok"
    ELSE IF files[1] = None THEN "TypeError"
    ELSE IF ~check_file_integrity(fsys, files[1]) THEN "incomplete"
    ELSE IntegrityAll(fsys, Tail(files))

\* the integrity gate of main()
VerifyInputs ==
    /\ pc = "verify"
    /\ LET verdict == IntegrityAll(fs, << video_file, audio_file >> \o subtitle_files)
       IN pc' = CASE verdict = "ok"         -> "classify"
                  [] verdict = "incomplete" -> "Aborted"
                  [] verdict = "TypeError"  -> "Crashed"
    /\ UNCHANGED << rejected, title, catalogue, translated_subtitles, fs, youtube_url, subtitle_files, lang_idx,
                    target_subtitle, subtitle_entries, pending, completed,
                    translated_texts, translated_subtitle_file, video_thread,
                    audio_thread, video_file, audio_file, subtitle_langs,
                    command, mux_exit, attempts, subs_download_called,
                    deleted >>

\* the translated file is appended and every subtitle file gets its tag
Classify ==
    /\ pc = "classify"
    /\ LET files == IF translated_subtitle_file # None
                    THEN Append(subtitle_files, translated_subtitle_file)
                    ELSE subtitle_files
       IN /\ subtitle_files' = files
          /\ subtitle_langs' = [k \in 1..Len(files) |-> subtitle_lang(files[k])]
    /\ pc' = "merge"
    /\ UNCHANGED << rejected, title, catalogue, translated_subtitles, fs, youtube_url, lang_idx, target_subtitle,
                    subtitle_entries, pending, completed, translated_texts,
                    translated_subtitle_file, video_thread, audio_thread,
                    video_file, audio_file, command, mux_exit, attempts,
                    subs_download_called, deleted >>

(***************************************************************************)
(* merge_with_ffmpeg.                                                      *)
(***************************************************************************)

\* `if subtitle_file` for a str or None
Truthy(f) == f # None /\ f # << >>

\* ["-metadata:s:s:" + str(i), f"language={lang}"] for i, lang in enumerate(langs)
MetadataArgs(langs) == [i \in 1..Len(langs) |-> [stream |-> i - 1, language |-> langs[i]]]

\* the for loop over subtitle_files from its k-th file on, given the
\* subtitle_inputs and the metadata arguments collected so far
RECURSIVE SubtitleArgs(_, _, _, _, _, _)
SubtitleArgs(fsys, files, langs, k, inputs, metadata) ==
    IF k > Len(files) THEN [inputs |-> inputs, metadata |-> metadata]
    ELSE LET added == IF Truthy(files[k]) /\ path_exists(fsys, files[k])
                      THEN Append(inputs, files[k]) ELSE inputs
             tagged == IF Len(langs) > 0 /\ Len(langs) = Len(added)
                       THEN metadata \o MetadataArgs(langs) ELSE metadata
         IN SubtitleArgs(fsys, files, langs, k + 1, added, tagged)

\* the argument list of ffmpeg: -i inputs, -metadata options, -map options and
\* the output path
BuildCommand(fsys, video, audio, files, output_file, langs) ==
    LET subs == SubtitleArgs(fsys, files, langs, 1, << >>, << >>) IN
    [ inputs   |-> << video, audio >> \o subs.inputs,
      metadata |-> subs.metadata,
      maps     |-> << [input |-> 0, stream |-> "v"], [input |-> 1, stream |-> "a"] >> \o
                   [i \in 1..Len(subs.inputs) |-> [input |-> i + 1, stream |-> "s"]],
      output   |-> output_file \o DotMkv ]

\* merge_with_ffmpeg up to subprocess.run: the existence guard, then the
\* command is built and ffmpeg is started
MergeInvoke ==
    /\ pc = "merge"
    /\ IF ~path_exists(fs, video_file) \/ ~path_exists(fs, audio_file)
       THEN pc' = "Aborted" /\ UNCHANGED command
       ELSE /\ command' = BuildCommand(fs, video_file, audio_file, subtitle_files,
                                       extract_base_filename(video_file), subtitle_langs)
            /\ pc' = "mux"
    /\ UNCHANGED << rejected, title, catalogue, translated_subtitles, fs, youtube_url, subtitle_files, lang_idx,
                    target_subtitle, subtitle_entries, pending, completed,
                    translated_texts, translated_subtitle_file, video_thread,
                    audio_thread, video_file, audio_file, subtitle_langs,
                    mux_exit, attempts, subs_download_called, deleted >>

\* how the ffmpeg process may end: non-zero, or zero having written the
\* container, an empty container, or nothing
MuxOutcomes == {"nonzero", "zero_written", "zero_empty", "zero_nothing"}

MuxExit ==
    /\ pc = "mux"
    /\ \E outcome \in MuxOutcomes :
          /\ mux_exit' = IF outcome = "nonzero" THEN "nonzero" ELSE "zero"
          /\ fs' = CASE outcome = "zero_written" -> WriteFile(fs, command.output, Media)
                     [] outcome = "zero_empty"   -> WriteFile(fs, command.output, << >>)
                     [] OTHER                    -> fs
    /\ pc' = "after_mux"
    /\ UNCHANGED << rejected, title, catalogue, translated_subtitles, youtube_url, subtitle_files, lang_idx,
                    target_subtitle, subtitle_entries, pending, completed,
                    translated_texts, translated_subtitle_file, video_thread,
                    audio_thread, video_file, audio_file, subtitle_langs,
                    command, attempts, subs_download_called, deleted >>

\* a mutant of CleanUp: the loop ends at the first entry that is not there
RECURSIVE CleanUpHalts(_, _)
CleanUpHalts(fsys, files) ==
    IF Len(files) = 0 THEN fsys
    ELSE IF Truthy(files[1]) /\ path_exists(fsys, files[1])
    THEN CleanUpHalts(RemoveFile(fsys, files[1]), Tail(files))
    ELSE fsys

\* the cleanup loop: `if file and os.path.exists(file): os.remove(file)`
RECURSIVE CleanUp(_, _)
CleanUp(fsys, files) ==
    IF Len(files) = 0 THEN fsys
    ELSE IF Truthy(files[1]) /\ path_exists(fsys, files[1])
    THEN CleanUp(RemoveFile(fsys, files[1]), Tail(files))
    ELSE CleanUp(fsys, Tail(files))

\* a mutant of MuxVerified: the output file is not checked
MuxExitedZero == mux_exit = "zero"

\* no CalledProcessError, and check_file_integrity(output_path)
MuxVerified ==
    /\ mux_exit = "zero"
    /\ check_file_integrity(fs, command.output)

\* merge_with_ffmpeg after subprocess.run: the except clause, the check of the
\* output and the cleanup
AfterMux ==
    /\ pc = "after_mux"
    /\ IF MuxVerified
       THEN /\ fs' = CleanUp(fs, << video_file, audio_file >> \o subtitle_files)
            /\ deleted' = DOMAIN fs \ DOMAIN fs'
            /\ pc' = "Done"
       ELSE /\ pc' = "Failed"
            /\ UNCHANGED << fs, deleted >>
    /\ UNCHANGED << rejected, title, catalogue, translated_subtitles, youtube_url, subtitle_files, lang_idx,
                    target_subtitle, subtitle_entries, pending, completed,
                    translated_texts, translated_subtitle_file, video_thread,
                    audio_thread, video_file, audio_file, subtitle_langs,
                    command, mux_exit, attempts, subs_download_called >>

\* the operator starts the script again in the same working directory
NewRun ==
    /\ pc \in Terminal
    /\ pc' = "prompt"
    /\ youtube_url' = None
    /\ subtitle_files' = << >>
    /\ lang_idx' = 0
    /\ target_subtitle' = None
    /\ subtitle_entries' = << >>
    /\ pending' = {}
    /\ completed' = << >>
    /\ translated_texts' = << >>
    /\ translated_subtitles' = << >>
    /\ translated_subtitle_file' = None
    /\ video_thread' = "idle"
    /\ audio_thread' = "idle"
    /\ video_file' = None
    /\ audio_file' = None
    /\ subtitle_langs' = << >>
    /\ command' = NoCommand
    /\ mux_exit' = "none"
    /\ attempts' = << >>
    /\ subs_download_called' = FALSE
    /\ deleted' = {}
    /\ UNCHANGED << rejected, title, catalogue, translated_subtitles, fs >>

Next ==
    \/ GetUserInput
    \/ DownloadSubtitles
    \/ ListSubtitles
    \/ SkipLanguage
    \/ BeginTranslate
    \/ RequestDone
    \/ RequestFail
    \/ TranslateError
    \/ GatherReturn
    \/ CombineSrt
    \/ WriteTranslated
    \/ StartVideo
    \/ StartAudio
    \/ VideoExit
    \/ AudioExit
    \/ JoinVideo
    \/ JoinAudio
    \/ Discover
    \/ VerifyInputs
    \/ Classify
    \/ MergeInvoke
    \/ MuxExit
    \/ AfterMux
    \/ NewRun

Spec == Init /\ [][Next]_vars

\* the operator types a URL that get_user_input accepts
AcceptUrl == GetUserInput /\ pc' = "subs"

\* a translation request returns, with a reply or with an exception
RequestReturns == RequestDone \/ RequestFail

\* a step of the run in progress: anything but a rejected input and a new
\* start of the script
RunStep ==
    \/ AcceptUrl
    \/ DownloadSubtitles
    \/ ListSubtitles
    \/ SkipLanguage
    \/ BeginTranslate
    \/ RequestReturns
    \/ TranslateError
    \/ GatherReturn
    \/ CombineSrt
    \/ WriteTranslated
    \/ StartVideo
    \/ StartAudio
    \/ VideoExit
    \/ AudioExit
    \/ JoinVideo
    \/ JoinAudio
    \/ Discover
    \/ VerifyInputs
    \/ Classify
    \/ MergeInvoke
    \/ MuxExit
    \/ AfterMux

\* the run of main() goes on: the operator eventually types a valid URL, every
\* external call (yt-dlp, the translation endpoint, ffmpeg) eventually
\* returns, and the interpreter takes the steps of main() that it can take;
\* whether the script is started again is left open.  This is weak fairness
\* of RunStep, which is enabled exactly while the run has not ended.
Progress == []<>(pc \in Terminal) \/ []<><<RunStep>>_vars

LiveSpec == Init /\ [][Next]_vars /\ Progress

(***************************************************************************)
(* combine_srt on its own: the cue sequences of a few documents against    *)
(* every short sequence of translated texts.                               *)
(***************************************************************************)

\* the longest sequence of translated texts tried
MaxTexts == 3

DocThreeCues ==
    DocTwoCues \o
    <<"\n", "0", "0", ":", "0", "1", ":", "0", "2", ".", "0", "0",
      "0", " ", "-", "-", ">", " ", "0", "0", ":", "0", "1", ":",
      "0", "3", ".", "2", "5", "0", " ", "a", "l", "i", "g", "n",
      ":", "s", "t", "a", "r", "t", "\n", "c", " ", "c", "\n">>

CodecDocs == {DocHeaderOnly, DocOneCue, DocTwoCues, DocThreeCues}

CodecTexts == { << "x" >>, << "y", "z" >> }

TextSeqs == UNION { [1..n -> CodecTexts] : n \in 0..MaxTexts }

CodecInit ==
    /\ title = << "T" >>
    /\ rejected = 0
    /\ catalogue = << >>
    /\ fs = << >>
    /\ pc = "codec"
    /\ subtitle_entries \in { parse_vtt(d).entries : d \in CodecDocs }
    /\ translated_texts \in TextSeqs
    /\ translated_subtitles = << >>
    /\ youtube_url = None
    /\ subtitle_files = << >>
    /\ lang_idx = 0
    /\ target_subtitle = None
    /\ pending = {}
    /\ completed = << >>
    /\ translated_subtitle_file = None
    /\ video_thread = "idle"
    /\ audio_thread = "idle"
    /\ video_file = None
    /\ audio_file = None
    /\ subtitle_langs = << >>
    /\ command = NoCommand
    /\ mux_exit = "none"
    /\ attempts = << >>
    /\ subs_download_called = FALSE
    /\ deleted = {}

\* one call combine_srt(subtitle_entries, translated_texts): it returns the
\* text or raises
CodecCombine ==
    /\ pc = "codec"
    /\ LET combined == combine_srt(subtitle_entries, translated_texts) IN
       IF combined.err
       THEN pc' = "codec_error" /\ UNCHANGED translated_subtitles
       ELSE pc' = "codec_done" /\ translated_subtitles' = combined.text
    /\ UNCHANGED << rejected, title, catalogue, fs, youtube_url, subtitle_files, lang_idx,
                    target_subtitle, subtitle_entries, pending, completed,
                    translated_texts, translated_subtitle_file, video_thread,
                    audio_thread, video_file, audio_file, subtitle_langs,
                    command, mux_exit, attempts, subs_download_called, deleted >>

CodecNext == CodecCombine

CodecSpec == CodecInit /\ [][CodecNext]_vars

(***************************************************************************)
(* The cleanup loop of merge_with_ffmpeg on its own: every short list of   *)
(* artifacts, None among them, against every directory over their names.   *)
(***************************************************************************)

\* the longest subtitle list tried
MaxClean == 2

CleanNames == {VideoName, AudioName, SubName(L_en), translated_name(SubName(L_en))}

CleanDirs == UNION { [S -> {Media}] : S \in SUBSET CleanNames }

CleanLists == UNION { [1..n -> CleanNames \cup {None}] : n \in 0..MaxClean }

CleanupInit ==
    /\ title = << "T" >>
    /\ rejected = 0
    /\ catalogue = << >>
    /\ fs \in CleanDirs
    /\ pc = "cleanup"
    /\ video_file \in {VideoName, None}
    /\ audio_file \in {AudioName, None}
    /\ subtitle_files \in CleanLists
    /\ deleted = {}
    /\ youtube_url = None
    /\ lang_idx = 0
    /\ target_subtitle = None
    /\ subtitle_entries = << >>
    /\ pending = {}
    /\ completed = << >>
    /\ translated_texts = << >>
    /\ translated_subtitles = << >>
    /\ translated_subtitle_file = None
    /\ video_thread = "idle"
    /\ audio_thread = "idle"
    /\ subtitle_langs = << >>
    /\ command = NoCommand
    /\ mux_exit = "none"
    /\ attempts = << >>
    /\ subs_download_called = FALSE

\* files_to_clean = [video_file, audio_file] + subtitle_files and the loop
\* over it, run once and then once more over the same list
CleanupRun ==
    /\ pc \in {"cleanup", "cleaned"}
    /\ fs' = CleanUp(fs, << video_file, audio_file >> \o subtitle_files)
    /\ deleted' = deleted \cup (DOMAIN fs \ DOMAIN fs')
    /\ pc' = IF pc = "cleanup" THEN "cleaned" ELSE "cleaned_again"
    /\ UNCHANGED << rejected, title, catalogue, youtube_url, subtitle_files, lang_idx,
                    target_subtitle, subtitle_entries, pending, completed,
                    translated_texts, translated_subtitles,
                    translated_subtitle_file, video_thread, audio_thread,
                    video_file, audio_file, subtitle_langs, command, mux_exit,
                    attempts, subs_download_called >>

CleanupNext == CleanupRun

CleanupSpec == CleanupInit /\ [][CleanupNext]_vars

(***************************************************************************)
(* combine_srt followed by parse_vtt: the cue sequences of well-formed     *)
(* documents, each with every sequence of as many translated texts.        *)
(***************************************************************************)

\* a translated text of three lines, the third of which reads as a timing line
TextWithTimingLine ==
    << "p", "\n", "q", "\n" >> \o
    <<"0", "0", ":", "0", "0", ":", "0", "9", ".", "0", "0", "0",
      " ", "-", "-", ">", " ", "0", "0", ":", "0", "0", ":", "1",
      "0", ".", "0", "0", "0">>

\* the translated texts tried: one line, two lines, none, three lines
RoundTripTexts == { << "x" >>, << "y", "\n", "z" >>, << >>, TextWithTimingLine }

RoundTripInit ==
    /\ title = << "T" >>
    /\ rejected = 0
    /\ catalogue = << >>
    /\ fs = << >>
    /\ pc = "parsed"
    /\ subtitle_entries \in { parse_vtt(d).entries : d \in CodecDocs }
    /\ translated_texts \in [1..Len(subtitle_entries) -> RoundTripTexts]
    /\ translated_subtitles = << >>
    /\ youtube_url = None
    /\ subtitle_files = << >>
    /\ lang_idx = 0
    /\ target_subtitle = None
    /\ pending = {}
    /\ completed = << >>
    /\ translated_subtitle_file = None
    /\ video_thread = "idle"
    /\ audio_thread = "idle"
    /\ video_file = None
    /\ audio_file = None
    /\ subtitle_langs = << >>
    /\ command = NoCommand
    /\ mux_exit = "none"
    /\ attempts = << >>
    /\ subs_download_called = FALSE
    /\ deleted = {}

\* translated_subtitles = combine_srt(subtitle_entries, translated_texts)
Serialize ==
    /\ pc = "parsed"
    /\ LET combined == combine_srt(subtitle_entries, translated_texts) IN
       IF combined.err
       THEN pc' = "serialize_error" /\ UNCHANGED translated_subtitles
       ELSE pc' = "serialized" /\ translated_subtitles' = combined.text
    /\ UNCHANGED << rejected, title, catalogue, fs, youtube_url, subtitle_files, lang_idx,
                    target_subtitle, subtitle_entries, pending, completed,
                    translated_texts, translated_subtitle_file, video_thread,
                    audio_thread, video_file, audio_file, subtitle_langs,
                    command, mux_exit, attempts, subs_download_called,
                    deleted >>

\* subtitle_entries = parse_vtt(translated_subtitles)
Reparse ==
    /\ pc = "serialized"
    /\ LET parsed == parse_vtt(translated_subtitles) IN
       IF parsed.err
       THEN pc' = "reparse_error" /\ UNCHANGED subtitle_entries
       ELSE pc' = "reparsed" /\ subtitle_entries' = parsed.entries
    /\ UNCHANGED << rejected, title, catalogue, fs, youtube_url, subtitle_files, lang_idx,
                    target_subtitle, pending, completed, translated_texts,
                    translated_subtitles, translated_subtitle_file,
                    video_thread, audio_thread, video_file, audio_file,
                    subtitle_langs, command, mux_exit, attempts,
                    subs_download_called, deleted >>

RoundTripNext == Serialize \/ Reparse

RoundTripSpec == RoundTripInit /\ [][RoundTripNext]_vars

(***************************************************************************)
(* merge_with_ffmpeg on its own: every list of distinct subtitle files     *)
(* with its tags, against every directory in which some may be missing.    *)
(***************************************************************************)

\* the longest subtitle list tried
MaxSubs == 3

MergeSubs == {SubName(L_en), SubName(L_ja), translated_name(SubName(L_en))}

\* the lists of distinct subtitle files
MergeLists ==
    UNION { { q \in [1..n -> MergeSubs] : \A a, b \in 1..n : q[a] = q[b] => a = b }
            : n \in 0..MaxSubs }

\* directories with both tracks and any of the subtitle files, and one
\* without the audio track
MergeDirs ==
    { [n \in {VideoName, AudioName} \cup S |-> Media] : S \in SUBSET MergeSubs }
        \cup { VideoName :> Media }

MergeInit ==
    /\ title = << "T" >>
    /\ rejected = 0
    /\ catalogue = << >>
    /\ fs \in MergeDirs
    /\ pc = "merge"
    /\ video_file = VideoName
    /\ audio_file = AudioName
    /\ subtitle_files \in MergeLists
    /\ subtitle_langs = [k \in 1..Len(subtitle_files) |-> subtitle_lang(subtitle_files[k])]
    /\ youtube_url = GoodUrl
    /\ lang_idx = 0
    /\ target_subtitle = None
    /\ subtitle_entries = << >>
    /\ pending = {}
    /\ completed = << >>
    /\ translated_texts = << >>
    /\ translated_subtitles = << >>
    /\ translated_subtitle_file = None
    /\ video_thread = "ok"
    /\ audio_thread = "ok"
    /\ command = NoCommand
    /\ mux_exit = "none"
    /\ attempts = << >>
    /\ subs_download_called = FALSE
    /\ deleted = {}

MergeNext == MergeInvoke

MergeSpec == MergeInit /\ [][MergeNext]_vars

(***************************************************************************)
(* Properties.                                                             *)
(***************************************************************************)

\* the file is on disk with at least one byte (stated without the program's
\* own check_file_integrity)
PresentNonEmpty(fsys, f) == f \in DOMAIN fsys /\ fsys[f] # << >>

\* ffmpeg has been started in this run
MuxInvoked == command # NoCommand

\* main() is past the translation loop
PastTranslation == pc \notin {"prompt", "subs", "listdir", "select", "gather",
                             "combine", "write"}

\* main() is past both joins
PastJoins == pc \in {"discover", "verify", "classify", "merge", "mux", "after_mux"}
                 \cup Terminal

\* the elements of a sequence
Range(q) == {q[k] : k \in 1..Len(q)}

\* C1: when the video or the audio artifact is missing or zero-byte at the
\* verification checkpoint, the checkpoint's only step ends the run, and a run
\* ended as Aborted or Crashed has never started ffmpeg.
C1_IntegrityGate ==
    /\ [][(/\ pc = "verify"
           /\ \/ ~PresentNonEmpty(fs, video_file)
              \/ ~PresentNonEmpty(fs, audio_file))
          => pc' \in {"Aborted", "Crashed"}]_vars
    /\ [](pc \in {"Aborted", "Crashed"} => ~MuxInvoked)

\* C1 witness: the gate has stopped a run whose video file is zero-byte.
C1_Witness ==
    /\ pc = "Aborted"
    /\ video_file \in DOMAIN fs
    /\ fs[video_file] = << >>
    /\ PresentNonEmpty(fs, audio_file)
    /\ ~MuxInvoked

\* C2: a step removes a file only after ffmpeg exited zero and the merged
\* output is present and non-empty; after a non-zero exit, or a zero exit with
\* the output missing or empty, the run ends Failed with the directory as it was.
C2_CleanupOnlyAfterVerifiedMux ==
    [][/\ (\E f \in DOMAIN fs : f \notin DOMAIN fs')
            => /\ pc = "after_mux"
               /\ mux_exit = "zero"
               /\ PresentNonEmpty(fs, command.output)
       /\ (/\ pc = "after_mux"
           /\ ~(mux_exit = "zero" /\ PresentNonEmpty(fs, command.output)))
            => (pc' = "Failed" /\ fs' = fs /\ deleted' = {})]_vars

\* C2 witness: ffmpeg exited zero without an output file, the run is Failed and
\* the video, audio and subtitle inputs are still on disk.
C2_Witness ==
    /\ pc = "Failed"
    /\ mux_exit = "zero"
    /\ command.output \notin DOMAIN fs
    /\ Len(command.inputs) > 2
    /\ Range(command.inputs) \subseteq DOMAIN fs

\* C3 (the claim as stated, less its first item): once a download process has
\* exited non-zero the run neither starts ffmpeg nor deletes anything.  The
\* claim also says that no file discovery follows; refuting this weaker
\* statement refutes the claim.
C3_FailedDownloadAborts ==
    (video_thread = "failed" \/ audio_thread = "failed")
        => (~MuxInvoked /\ deleted = {})

\* the language tags the command gives to the subtitle stream of input file f
TagsOf(f) ==
    { m.language : m \in { x \in Range(command.metadata) :
                             /\ x.stream + 3 <= Len(command.inputs)
                             /\ command.inputs[x.stream + 3] = f } }

\* C4 (the claim as stated): with the downloaded subtitle files en and ja and a
\* successful translation, ffmpeg is started with the en stream tagged en, the
\* translated stream tagged zh-TW, and the translated file as last input.
C4_ScenarioATags ==
    (/\ pc = "mux"
     /\ translated_subtitle_file # None
     /\ Len(subtitle_files) = 3
     /\ {subtitle_files[1], subtitle_files[2]} = {SubName(L_en), SubName(L_ja)})
        => /\ command.inputs[Len(command.inputs)] = translated_subtitle_file
           /\ TagsOf(SubName(L_en)) = {L_en}
           /\ TagsOf(translated_subtitle_file) = {L_zhTW}

\* C5 (the claim as stated): when ffmpeg is started every file passed to it as
\* an input, the translated subtitle file included, is present and non-empty.
C5_AllInputsVerified ==
    pc = "mux" => \A f \in Range(command.inputs) : PresentNonEmpty(fs, f)

\* C6: what gather hands to combine_srt has one text per cue, and the text at
\* the position of a cue is the reply to the request issued for that cue,
\* whatever the order in which the replies arrived.
C6_OrderPreserved ==
    pc = "combine"
        => /\ Len(translated_texts) = Len(subtitle_entries)
           /\ Len(completed) = Len(subtitle_entries)
           /\ \A k \in 1..Len(completed) :
                 /\ completed[k].idx \in 1..Len(translated_texts)
                 /\ translated_texts[completed[k].idx] = completed[k].text
                 /\ completed[k].text = Reply(subtitle_entries[completed[k].idx].text)

\* C6 witness: gather has returned for two cues whose replies arrived in the
\* reverse of the order of issue.
C6_Witness ==
    /\ pc = "combine"
    /\ Len(completed) = 2
    /\ completed[1].idx = 2
    /\ completed[2].idx = 1
    /\ translated_texts[1] # translated_texts[2]

\* C7: from the moment a request of the batch has failed until the call has
\* returned, no file is written and main()'s translated file stays None,
\* whether or not the other requests complete.
C7_FailedBatchWritesNothing ==
    [][AnyFailed(completed) => (fs' = fs /\ translated_subtitle_file' = None)]_vars

\* C7 witness: the translation of the en file, a request of which failed, has
\* returned None and its translated file does not exist.
C7_Witness ==
    /\ pc \in {"select", "threads"}
    /\ Len(attempts) = 1
    /\ attempts[1].failed
    /\ attempts[1].wrote = None
    /\ attempts[1].src = SubName(L_en)
    /\ translated_name(attempts[1].src) \notin DOMAIN fs
    /\ translated_subtitle_file = None

\* C8: the scan for the video and audio files, the integrity gate, the mux and
\* every later step of a run find both download threads ended.
C8_DownstreamAfterBothJoins ==
    PastJoins => /\ video_thread \in {"ok", "failed"}
                 /\ audio_thread \in {"ok", "failed"}

\* C8 witness: both downloads were running at once, the video has ended and
\* main() is blocked in audio_thread.join() while the audio still runs.
C8_Witness ==
    /\ pc = "join_audio"
    /\ video_thread = "ok"
    /\ audio_thread = "running"

\* C9: combine_srt fails whenever the number of
\* translated texts differs from the number of cues, and produces output only
\* when the two are equal.
C9_FailsOnAnyMismatch ==
    pc \in {"codec_done", "codec_error"}
        => (pc = "codec_error" <=> Len(translated_texts) # Len(subtitle_entries))

\* some call of translate_subtitles_parallel in this run lost a request
SomeAttemptFailed == \E k \in 1..Len(attempts) : attempts[k].failed

\* C10 (the claim as stated): when the translation of the selected source, the
\* first file handed to translate_subtitles_parallel, fails on a request, no
\* translated file is written in the run, the run goes on without a translated
\* subtitle, and the listed subtitle files are inputs of the mux.
C10_FailedTranslationMeansNone ==
    (PastTranslation /\ Len(attempts) > 0 /\ attempts[1].failed)
        => /\ translated_subtitle_file = None
           /\ \A k \in 1..Len(attempts) : attempts[k].wrote = None
           /\ pc = "mux" => Range(subtitle_files) \subseteq Range(command.inputs)

\* C10 (amended): a call of translate_subtitles_parallel that loses a request
\* writes nothing and hands main() on to the next language of the priority
\* list or to the downloads; a later call may still produce a translated
\* file; when no call wrote one, the run goes on without a translated
\* subtitle; and every listed subtitle file is an input of the mux.
C10_FailedAttemptDegrades ==
    /\ [][(/\ Len(attempts') = Len(attempts) + 1
           /\ attempts'[Len(attempts')].failed)
          => /\ attempts'[Len(attempts')].wrote = None
             /\ fs' = fs
             /\ translated_subtitle_file' = translated_subtitle_file
             /\ pc' \in {"select", "threads"}]_vars
    /\ []((PastTranslation /\ \A k \in 1..Len(attempts) : attempts[k].wrote = None)
              => translated_subtitle_file = None)
    /\ [](pc = "mux" => Range(subtitle_files) \subseteq Range(command.inputs))

\* C10 witness: every attempt of the run failed, and ffmpeg has been started
\* without a translated file and with both listed subtitle files.
C10_Witness ==
    /\ pc = "mux"
    /\ SomeAttemptFailed
    /\ translated_subtitle_file = None
    /\ Len(subtitle_files) = 2
    /\ Range(subtitle_files) \subseteq Range(command.inputs)

\* main() is between the listing of the subtitle files and their
\* classification: subtitle_files is the listing of the downloaded files
ListingHeld == pc \in {"select", "gather", "combine", "write", "threads",
                       "join_video", "join_audio", "discover", "verify",
                       "classify"}

\* the file of the first call of translate_subtitles_parallel in this run
SelectedSource ==
    IF attempts # << >> THEN attempts[1].src
    ELSE IF pc \in {"gather", "combine", "write"} THEN target_subtitle
    ELSE None

\* the first language of the priority list, from its k-th on, that some file
\* name contains
RECURSIVE HighestMarker(_, _)
HighestMarker(files, k) ==
    IF k > Len(Priority) THEN None
    ELSE IF FirstWith(files, Priority[k]) # None THEN Priority[k]
    ELSE HighestMarker(files, k + 1)

\* C11 (the claim as stated): with no listed file named zh-TW, the file of the
\* first translation call is the first listed file whose name contains the
\* highest-priority marker present; when the listed files are the en and the
\* ja track, it is the en file; and when no name contains a marker, no
\* translation is attempted.
C11_PrioritySelectsEn ==
    (ListingHeld /\ \A k \in 1..Len(subtitle_files) : ~Contains(subtitle_files[k], L_zhTW))
        => /\ SelectedSource # None
                => SelectedSource =
                      FirstWith(subtitle_files, HighestMarker(subtitle_files, 1))
           /\ (/\ SelectedSource # None
               /\ Range(subtitle_files) = {SubName(L_en), SubName(L_ja)})
                => SelectedSource = SubName(L_en)
           /\ (HighestMarker(subtitle_files, 1) = None /\ PastTranslation)
                => attempts = << >>

\* C12 (the claim as stated): when the catalogue of subtitle tracks is empty,
\* ydl.download is not called, no translation is attempted in the run, and
\* ffmpeg is started with the video and the audio as its only inputs and
\* 0:v and 1:a as its only maps.
C12_EmptyCatalogueNoSubtitles ==
    DOMAIN catalogue = {}
        => /\ ~subs_download_called
           /\ attempts = << >>
           /\ pc \notin {"gather", "combine", "write"}
           /\ pc = "mux"
                => /\ command.inputs = << video_file, audio_file >>
                   /\ command.maps = << [input |-> 0, stream |-> "v"],
                                        [input |-> 1, stream |-> "a"] >>

\* C13: the cleanup loop skips an entry that is None or not in the directory
\* and removes every listed file that is there, leaving the other files as
\* they were; run again over the same list it changes nothing.
C13_CleanupSkipsAbsent ==
    /\ [][pc = "cleanup"
            => LET listed == Range(<< video_file, audio_file >> \o subtitle_files)
               IN /\ DOMAIN fs' = DOMAIN fs \ listed
                  /\ \A n \in DOMAIN fs' : fs'[n] = fs[n]]_vars
    /\ [][pc = "cleaned" => (fs' = fs /\ deleted' = deleted)]_vars

\* C13 witness: the loop has run over a list with a None entry, an entry that
\* was not in the directory before a later one that was, and the later one has
\* been removed.
C13_Witness ==
    /\ pc = "cleaned"
    /\ video_file = None
    /\ Len(subtitle_files) = 2
    /\ subtitle_files[1] # None
    /\ subtitle_files[1] \notin deleted
    /\ subtitle_files[2] \in deleted

\* C14 (the claim as stated): for the cue sequence of a well-formed document
\* and any sequence of as many translated texts, parsing what combine_srt
\* returns yields as many cues, in the same order, whose start and end times
\* are the original ones with every '.' replaced by ','.
C14_RoundTripTiming ==
    [][pc = "serialized"
         => /\ pc' = "reparsed"
            /\ Len(subtitle_entries') = Len(subtitle_entries)
            /\ \A k \in 1..Len(subtitle_entries) :
                  /\ subtitle_entries'[k].start_time =
                        Replace(subtitle_entries[k].start_time, << "." >>, << "," >>)
                  /\ subtitle_entries'[k].end_time =
                        Replace(subtitle_entries[k].end_time, << "." >>, << "," >>)]_vars

\* C15: in a run whose listing holds the downloaded zh-TW track, no
\* translation request is issued and no translated file is written.
C15_ExistingTargetSkipsTranslation ==
    SubName(L_zhTW) \in Range(subtitle_files)
        => /\ attempts = << >>
           /\ pc \notin {"select", "gather", "combine", "write"}
           /\ pending = {}
           /\ completed = << >>
           /\ translated_subtitle_file = None

\* C15 witness: ffmpeg has been started with the zh-TW track and another
\* track that could have been translated, and nothing was translated.
C15_Witness ==
    /\ pc = "mux"
    /\ SubName(L_zhTW) \in Range(command.inputs)
    /\ SubName(L_en) \in Range(command.inputs)
    /\ attempts = << >>
    /\ translated_subtitle_file = None

\* C16: while get_user_input is prompting, an input changes nothing but the
\* count of rejected inputs unless it is the accepted URL, with which alone
\* main() goes on to the subtitle step; until then no subtitle download,
\* translation or mux has been started, and every later step of the run has
\* the accepted URL.
C16_InvalidInputOnlyReprompts ==
    /\ [][pc = "prompt"
            => /\ UNCHANGED << title, catalogue, fs, subtitle_files, lang_idx,
                               target_subtitle, subtitle_entries, pending,
                               completed, translated_texts, translated_subtitles,
                               translated_subtitle_file, video_thread,
                               audio_thread, video_file, audio_file,
                               subtitle_langs, command, mux_exit, attempts,
                               subs_download_called, deleted >>
               /\ \/ pc' = "prompt" /\ youtube_url' = youtube_url
                  \/ pc' = "subs" /\ youtube_url' = GoodUrl /\ rejected' = 0]_vars
    /\ [](pc = "prompt"
            => /\ ~subs_download_called
               /\ attempts = << >>
               /\ pending = {}
               /\ video_thread = "idle"
               /\ audio_thread = "idle"
               /\ command = NoCommand
               /\ deleted = {})
    /\ [](pc # "prompt" => youtube_url = GoodUrl)

\* C16 witness: two invalid inputs have been typed and the run is still at the
\* prompt.
C16_Witness ==
    /\ pc = "prompt"
    /\ rejected = 2
    /\ youtube_url = None

\* the listed subtitle files that are in the directory, in list order
AddedSubtitles ==
    LET Present(f) == Truthy(f) /\ path_exists(fs, f)
    IN SelectSeq(subtitle_files, Present)

\* the tag main() gave for the listed file f
GivenTag(f) ==
    subtitle_langs[CHOOSE k \in 1..Len(subtitle_files) : subtitle_files[k] = f]

\* C17 (the claim as stated): whichever listed subtitle files are missing, the
\* command takes the video from input 0, the audio from input 1 and the j-th
\* subtitle file that was added from input 2+j, in list order, and carries
\* exactly one language entry per mapped subtitle stream, whose value is the
\* tag given for that file.
C17_OneTagPerMappedStream ==
    pc = "mux"
        => /\ command.inputs = << video_file, audio_file >> \o AddedSubtitles
           /\ command.maps =
                 << [input |-> 0, stream |-> "v"], [input |-> 1, stream |-> "a"] >> \o
                 [j \in 1..Len(AddedSubtitles) |-> [input |-> j + 1, stream |-> "s"]]
           /\ Len(command.metadata) = Len(AddedSubtitles)
           /\ \A j \in 1..Len(command.metadata) :
                 /\ command.metadata[j].stream = j - 1
                 /\ command.metadata[j].language = GivenTag(AddedSubtitles[j])

\* C18 (the claim as stated): a run that found no video file or no audio file
\* after the downloads ends as Aborted, through the 'files incomplete' return,
\* and not with an exception.
C18_MissingTrackAborts ==
    (pc \in Terminal /\ PastJoins /\ (video_file = None \/ audio_file = None))
        => pc = "Aborted"

\* the subtitle inputs of the ffmpeg command
SubtitleInputs == SubSeq(command.inputs, 3, Len(command.inputs))

\* C19 (the claim as stated): in every invocation of ffmpeg, in a first run or
\* in a run that follows others in the same directory, no subtitle file is
\* passed twice as a subtitle input.
C19_NoDuplicateSubtitleInput ==
    MuxInvoked
        => \A a, b \in 1..Len(SubtitleInputs) :
              SubtitleInputs[a] = SubtitleInputs[b] => a = b

\* every run that has started reaches the end of main(), however it ends
EveryRunEnds == (pc = "prompt") ~> (pc \in Terminal)

\* C20 (the claim as stated): every run eventually ends, and ends as Done
\* with the listed inputs removed, as Aborted or as Failed; the translation
\* step makes at most one attempt per language of the priority list, and no
\* attempt follows one that wrote a translated file.
C20_EveryRunEndsDoneAbortedFailed ==
    /\ EveryRunEnds
    /\ [](pc \in Terminal => pc \in {"Done", "Aborted", "Failed"})
    /\ [](pc = "Done"
            => \A f \in Range(<< video_file, audio_file >> \o subtitle_files) :
                  f \notin DOMAIN fs)
    /\ [](/\ Len(attempts) <= Len(Priority)
          /\ \A k \in 1..(Len(attempts) - 1) : attempts[k].wrote = None)

=============================================================================
